---------------------------- MODULE Spec2Model ----------------------------
(***************************************************************************)
(* Commodore 64 universal USB keyboard (c64_universal_usb_kb.ino).         *)
(*                                                                         *)
(* The model follows the sketch: setup() loads the keyboard target from    *)
(* EEPROM, loop() sweeps the 8 x 9 matrix one cell at a time, and every    *)
(* accepted edge is dispatched to press() or release(), which talk to the  *)
(* USB HID keyboard (the sink).                                            *)
(*                                                                         *)
(* The sink is the set of host keys currently held.  A host key is a       *)
(* string: a printable character ("a", "&") or the name of an HID macro    *)
(* ("KEY_F1").  An entry of keymap[] that holds an HID macro reaches the   *)
(* sink, when passed as data, as the character with that macro's code      *)
(* (see AsData), which is a different host key.                            *)
(*                                                                         *)
(* Time: millis() is not kept as an absolute value.  For every position    *)
(* debounceAge[k] is millis() - lastDebounceTime[k], saturated at          *)
(* debounceDelay, which is all the comparison in loop() can observe.       *)
(***************************************************************************)
EXTENDS Integers, Sequences, FiniteSets, TLC

\* ------------------------------------------------------------------ bounds
\* At most MaxDown matrix positions read as down at the same time.
MaxDown == 4

\* ------------------------------------------------------- program constants
ASCII == 1
VICE2_BMC64 == 2
VICE3 == 3
MISTER == 4
MAXTARGETS == 4
BLINK_RATE == 75
LED_START_DELAY == 1000
debounceDelay == 5
NumRows == 8
NumCols == 9
RowStride == 10
MenuDelay == 25
RowSettle == 1

Positions == 0..79
Targets == 1..MAXTARGETS

\* The positions that are keys: rows 0-7 x columns 0-7, and RESTORE.
ValidPositions ==
  { r * RowStride + c : r \in 0..(NumRows - 1), c \in 0..(NumCols - 2) } \cup {68}

\* The groups of matrix positions the environment may hold down in one run:
\* the target-cycling keys (F1, LSHIFT, CTRL, C=) and the menu and unshift
\* keys (F7, LSHIFT, 0, RSHIFT, C=).
KeyGroups == { {4, 17, 72, 75}, {3, 17, 43, 64, 75} }

\* The same, and every key together with the two Shifts.
AllKeyGroups == KeyGroups \cup { {17, 64, k} : k \in ValidPositions }

\* ------------------------------------------------------------- host keys
\* The HID macros the sketch names (non-printable keys).
NamedKeys ==
  { "KEY_END", "KEY_HOME", "KEY_BACKSPACE", "KEY_TAB", "KEY_PAGE_UP",
    "KEY_PAGE_DOWN", "KEY_ESC", "KEY_LEFT_SHIFT", "KEY_RIGHT_SHIFT",
    "KEY_ENTER", "KEY_RETURN", "KEY_LEFT_CTRL", "KEY_LEFT_ALT",
    "KEY_DOWN_ARROW", "KEY_RIGHT_ARROW", "KEY_UP_ARROW", "KEY_LEFT_ARROW",
    "KEY_F1", "KEY_F2", "KEY_F3", "KEY_F4", "KEY_F5", "KEY_F6", "KEY_F7",
    "KEY_F8", "KEY_F9", "KEY_F10", "KEY_F11", "KEY_F12", "KEY_INSERT",
    "KEY_DELETE", "KEY_LEFT_WINDOWS" }

\* keymap[] is an array of char.  An entry passed to BootKeyboard.press or
\* BootKeyboard.release is passed as character data: a printable entry is
\* that character, an entry that was assigned an HID macro is the character
\* whose code is the macro's number, not the named key.
AsData(e) == IF e \in NamedKeys THEN "chr." \o e ELSE e

\* The value of a global char that was never assigned.
NUL == "NUL"

\* The characters 0x60, 0x27 and 0x22, which a string here cannot hold.
GRAVE == "GRAVE"
APOSTROPHE == "APOSTROPHE"
DQUOTE == "DQUOTE"

\* --------------------------------------------------------------- setKeymap
\* The assignments every call makes first (the VICE 3.x positional map).
BaseKeymap ==
  ( 71 :> GRAVE @@ 70 :> "1" @@ 73 :> "2" @@ 10 :> "3" @@ 13 :> "4" @@
    20 :> "5" @@ 23 :> "6" @@ 30 :> "7" @@ 33 :> "8" @@ 40 :> "9" @@
    43 :> "0" @@ 50 :> "-" @@ 53 :> "=" @@ 60 :> "KEY_END" @@
    63 :> "KEY_HOME" @@ 0 :> "KEY_BACKSPACE" @@
    72 :> "KEY_TAB" @@ 76 :> "q" @@ 11 :> "w" @@ 16 :> "e" @@ 21 :> "r" @@
    26 :> "t" @@ 31 :> "y" @@ 36 :> "u" @@ 41 :> "i" @@ 46 :> "o" @@
    51 :> "p" @@ 56 :> "[" @@ 61 :> "]" @@ 66 :> "\\" @@
    68 :> "KEY_PAGE_UP" @@
    77 :> "KEY_ESC" @@ 17 :> "KEY_LEFT_SHIFT" @@ 12 :> "a" @@ 15 :> "s" @@
    22 :> "d" @@ 25 :> "f" @@ 32 :> "g" @@ 35 :> "h" @@ 42 :> "j" @@
    45 :> "k" @@ 52 :> "l" @@ 55 :> ";" @@ 62 :> APOSTROPHE @@
    65 :> "KEY_PAGE_DOWN" @@ 1 :> "KEY_ENTER" @@
    75 :> "KEY_LEFT_CTRL" @@ 14 :> "z" @@ 27 :> "x" @@ 24 :> "c" @@
    37 :> "v" @@ 34 :> "b" @@ 47 :> "n" @@ 44 :> "m" @@ 57 :> "," @@
    54 :> "." @@ 67 :> "/" @@ 64 :> "KEY_RIGHT_SHIFT" @@
    7 :> "KEY_DOWN_ARROW" @@ 2 :> "KEY_RIGHT_ARROW" @@
    74 :> " " @@ 4 :> "KEY_F1" @@ 5 :> "KEY_F3" @@ 6 :> "KEY_F5" @@
    3 :> "KEY_F7" )

\* Mutant: the switch (target) assigns nothing.
TargetKeymap_NoOverrides(t) == << >>

\* The switch (target) at the end of setKeymap; VICE3 has no case.
TargetKeymap(t) ==
  CASE t = ASCII ->
         ( 50 :> "+" @@ 53 :> "-" @@ 60 :> "\\" @@ 72 :> "KEY_LEFT_CTRL" @@
           56 :> "@" @@ 61 :> "*" @@ 66 :> "^" @@ 68 :> "KEY_TAB" @@
           55 :> ":" @@ 62 :> ";" @@ 65 :> "=" @@ 75 :> "KEY_LEFT_ALT" )
    [] t = VICE2_BMC64 ->
         ( 60 :> "KEY_INSERT" @@ 66 :> "KEY_DELETE" @@ 65 :> "\\" )
    [] t = MISTER ->
         ( 50 :> "=" @@ 53 :> "-" @@ 60 :> "\\" @@ 72 :> "KEY_LEFT_CTRL" @@
           66 :> "KEY_F9" @@ 68 :> "KEY_F11" @@ 65 :> "KEY_F10" @@
           75 :> "KEY_LEFT_ALT" )
    [] OTHER -> << >>

\* Mutant: the default mapping is written only to entries that are still
\* empty, so what an earlier target wrote stays.
setKeymap_KeepsOld(km, t) ==
  [p \in DOMAIN km |->
     IF p \in DOMAIN TargetKeymap(t) THEN TargetKeymap(t)[p]
     ELSE IF p \in DOMAIN BaseKeymap /\ km[p] = NUL THEN BaseKeymap[p]
     ELSE km[p]]

\* keymap[] after setKeymap() ran on the array km with target t: the switch's
\* assignments come last, positions no assignment names keep their value.
setKeymap(km, t) ==
  [p \in DOMAIN km |->
     IF p \in DOMAIN TargetKeymap(t) THEN TargetKeymap(t)[p]
     ELSE IF p \in DOMAIN BaseKeymap THEN BaseKeymap[p]
     ELSE km[p]]

\* ------------------------------------------------- the state the handlers use
\* press() and release() are operators on a record s of the sketch's globals
\* (target, keymap, lShifted, rShifted, ctrlPressed, cmdrPressed, enterMenu,
\* pageScr, clrPressed, shifted), the EEPROM byte at address 0 (eeprom), the
\* sink (the set of host keys held), the list of external operations the
\* handler has performed so far (ops) and the milliseconds it has spent in
\* delay() (elapsed).
Op(o, k, n) == [op |-> o, key |-> k, n |-> n]

\* BootKeyboard.press(k), BootKeyboard.release(k), BootKeyboard.releaseAll():
\* the host holds a key from its press to its release.
BKpress(s, k) ==
  [s EXCEPT !.sink = @ \cup {k}, !.ops = Append(@, Op("press", k, 0))]

BKrelease(s, k) ==
  [s EXCEPT !.sink = @ \ {k}, !.ops = Append(@, Op("release", k, 0))]

BKreleaseAll(s) ==
  [s EXCEPT !.sink = {}, !.ops = Append(@, Op("releaseAll", "", 0))]

\* EEPROM.write(0, v)
EEPROMwrite(s, v) ==
  [s EXCEPT !.eeprom = v % 256, !.ops = Append(@, Op("store", "", v))]

\* delay(ms)
delay(s, ms) == [s EXCEPT !.elapsed = @ + ms]

\* setKeymap() on the globals
doSetKeymap(s) ==
  [s EXCEPT !.keymap = setKeymap(@, s.target),
            !.ops = Append(@, Op("setKeymap", "", s.target))]

allowBlink == TRUE

\* blinkLED(times): times pulses of two BLINK_RATE delays each
blinkLED(s, times) ==
  LET s1 == [s EXCEPT !.ops = Append(@, Op("blinkLED", "", times))]
  IN  IF allowBlink /\ times > 0
        THEN delay(s1, times * (BLINK_RATE + BLINK_RATE))
        ELSE s1

shiftedKey(s) == s.lShifted \/ s.rShifted

\* Mutant: MISTER is taken for a VICE target.
misterOrASCII_AsciiOnly(s) == s.target = ASCII

misterOrASCII(s) == s.target = MISTER \/ s.target = ASCII

\* Mutant: unshift() releases the left Shift only.
unshift_LeftOnly(s) == IF s.lShifted THEN BKrelease(s, "KEY_LEFT_SHIFT") ELSE s

\* Mutant: unshift() also forgets that the Shift keys are held.
unshift_ForgetsShift(s) ==
  LET s1 == IF s.lShifted THEN BKrelease(s, "KEY_LEFT_SHIFT") ELSE s
      s2 == IF s1.rShifted THEN BKrelease(s1, "KEY_RIGHT_SHIFT") ELSE s1
  IN  [s2 EXCEPT !.lShifted = FALSE, !.rShifted = FALSE]

unshift(s) ==
  LET s1 == IF s.lShifted THEN BKrelease(s, "KEY_LEFT_SHIFT") ELSE s
  IN  IF s1.rShifted THEN BKrelease(s1, "KEY_RIGHT_SHIFT") ELSE s1

setShifted(s, key, b) == [s EXCEPT !.shifted[key] = b]

\* ------------------------------------------------------- target cycling
\* Mutant: the backward wrap tests target < 0.
NextTarget_BackOffByOne(t, ctrl, shift) ==
  IF ctrl THEN 1
  ELSE IF shift
         THEN (IF t - 1 < 0 THEN MAXTARGETS ELSE t - 1)
         ELSE (IF t + 1 > MAXTARGETS THEN 1 ELSE t + 1)

\* Mutant: the forward rotation does not wrap.
NextTarget_NoForwardWrap(t, ctrl, shift) ==
  IF ctrl THEN 1
  ELSE IF shift
         THEN (IF t - 1 < 1 THEN MAXTARGETS ELSE t - 1)
         ELSE t + 1

\* The new target of press(4) with C= held (ctrl: ctrlPressed, shift:
\* shiftedKey()).
NextTarget(t, ctrl, shift) ==
  IF ctrl THEN 1
  ELSE IF shift
         THEN (IF t - 1 < 1 THEN MAXTARGETS ELSE t - 1)
         ELSE (IF t + 1 > MAXTARGETS THEN 1 ELSE t + 1)

\* Mutant: the keyboard is not reset.
cycleTarget_NoReleaseAll(s) ==
  LET s1 == [s EXCEPT !.target = NextTarget(s.target, s.ctrlPressed, shiftedKey(s))]
      s2 == EEPROMwrite(s1, s1.target)
      s4 == doSetKeymap(s2)
  IN  blinkLED(s4, s4.target)

\* Mutant: the EEPROM is written before the target is rotated.
cycleTarget_StoreOld(s) ==
  LET s1 == EEPROMwrite(s, s.target)
      s2 == [s1 EXCEPT !.target = NextTarget(s.target, s.ctrlPressed, shiftedKey(s))]
      s3 == BKreleaseAll(s2)
      s4 == doSetKeymap(s3)
  IN  blinkLED(s4, s4.target)

\* The cmdrPressed branch of case 4 of press().
cycleTarget(s) ==
  LET s1 == [s EXCEPT !.target = NextTarget(s.target, s.ctrlPressed, shiftedKey(s))]
      s2 == EEPROMwrite(s1, s1.target)
      s3 == BKreleaseAll(s2)
      s4 == doSetKeymap(s3)
  IN  blinkLED(s4, s4.target)

\* Mutant: CTRL alone also rotates the target.
pressF1_CtrlAlsoCycles(s) ==
  IF s.cmdrPressed \/ s.ctrlPressed THEN cycleTarget(s)
  ELSE IF s.target = ASCII /\ shiftedKey(s)
         THEN BKpress(unshift(setShifted(s, 4, TRUE)), "KEY_F2")
         ELSE BKpress(s, "KEY_F1")

\* Mutant: F1 changes the target whether or not Commodore is held.
pressF1_NoCommodoreTest(s) == cycleTarget(s)

\* case 4 of press(): F1
pressF1(s) ==
  IF s.cmdrPressed THEN cycleTarget(s)
  ELSE IF s.target = ASCII /\ shiftedKey(s)
         THEN BKpress(unshift(setShifted(s, 4, TRUE)), "KEY_F2")
         ELSE BKpress(s, "KEY_F1")

\* Mutant: on MISTER the menu press does not press Left Alt again.
pressF7_AltStaysUp(s) ==
  CASE s.target = MISTER ->
         IF s.cmdrPressed
           THEN LET s1 == BKrelease([s EXCEPT !.enterMenu = TRUE], "KEY_LEFT_ALT")
                IN  BKpress(delay(s1, MenuDelay), "KEY_F12")
           ELSE BKpress(s, "KEY_F7")
    [] s.target = ASCII ->
         IF s.cmdrPressed
           THEN BKpress(BKrelease([s EXCEPT !.enterMenu = TRUE], "KEY_LEFT_ALT"),
                        "KEY_LEFT_WINDOWS")
           ELSE IF shiftedKey(s)
                  THEN BKpress(unshift(setShifted(s, 3, TRUE)), "KEY_F8")
                  ELSE BKpress(s, "KEY_F7")
    [] OTHER -> BKpress(s, "KEY_F7")

\* case 3 of press(): F7
pressF7(s) ==
  CASE s.target = MISTER ->
         IF s.cmdrPressed
           THEN LET s1 == BKrelease([s EXCEPT !.enterMenu = TRUE], "KEY_LEFT_ALT")
                    s2 == BKpress(delay(s1, MenuDelay), "KEY_F12")
                IN  BKpress(delay(s2, MenuDelay), "KEY_LEFT_ALT")
           ELSE BKpress(s, "KEY_F7")
    [] s.target = ASCII ->
         IF s.cmdrPressed
           THEN BKpress(BKrelease([s EXCEPT !.enterMenu = TRUE], "KEY_LEFT_ALT"),
                        "KEY_LEFT_WINDOWS")
           ELSE IF shiftedKey(s)
                  THEN BKpress(unshift(setShifted(s, 3, TRUE)), "KEY_F8")
                  ELSE BKpress(s, "KEY_F7")
    [] OTHER -> BKpress(s, "KEY_F7")

\* case 7 of press(): CRSRDN
pressCrsrDn(s) ==
  IF shiftedKey(s)
    THEN LET s1 == setShifted(s, 7, TRUE)
         IN  IF s1.target = ASCII
               THEN LET s2 == unshift(s1)
                    IN  IF s2.ctrlPressed
                          THEN BKpress(BKrelease([s2 EXCEPT !.pageScr = TRUE],
                                                 "KEY_LEFT_CTRL"), "KEY_PAGE_UP")
                          ELSE BKpress(s2, "KEY_UP_ARROW")
               ELSE BKpress(s1, "KEY_UP_ARROW")
    ELSE IF s.target = ASCII
           THEN IF s.ctrlPressed
                  THEN BKpress(BKrelease([s EXCEPT !.pageScr = TRUE],
                                         "KEY_LEFT_CTRL"), "KEY_PAGE_DOWN")
                  ELSE BKpress(s, "KEY_DOWN_ARROW")
           ELSE BKpress(s, "KEY_DOWN_ARROW")

\* The cases of press() of the form
\*   if (target == ASCII && shiftedKey()) { shifted[key] = true; [unshift();]
\*     press(alt); } else press(plain);
pressAsciiShift(s, key, un, alt, plain) ==
  IF s.target = ASCII /\ shiftedKey(s)
    THEN LET s1 == setShifted(s, key, TRUE)
         IN  BKpress(IF un THEN unshift(s1) ELSE s1, alt)
    ELSE BKpress(s, plain)

\* Mutant: the alternate is pressed and the latch is not set.
pressDigit_NoLatch(s, key, alt) ==
  IF shiftedKey(s) /\ misterOrASCII(s)
    THEN BKpress(s, alt)
    ELSE BKpress(s, AsData(s.keymap[key]))

\* The cases of press() of the form
\*   if (shiftedKey() && misterOrASCII()) { shifted[key] = true; press(alt); }
\*   else press(keymap[key]);
pressDigit(s, key, alt) ==
  IF shiftedKey(s) /\ misterOrASCII(s)
    THEN BKpress(setShifted(s, key, TRUE), alt)
    ELSE BKpress(s, AsData(s.keymap[key]))

\* void press(uint8_t key)
press(s, key) ==
  CASE key = 23 -> pressDigit(s, key, "&")
    [] key = 30 ->
         IF shiftedKey(s)
           THEN LET s1 == setShifted(s, key, TRUE)
                IN  CASE s1.target = MISTER -> BKpress(s1, "^")
                      [] s1.target = ASCII -> BKpress(unshift(s1), APOSTROPHE)
                      [] OTHER -> BKpress(s1, AsData(s1.keymap[key]))
           ELSE BKpress(s, AsData(s.keymap[key]))
    [] key = 33 -> pressDigit(s, key, "(")
    [] key = 40 -> pressDigit(s, key, ")")
    [] key = 43 -> BKpress(unshift(s), AsData(s.keymap[key]))
    [] key = 0 -> pressAsciiShift(s, key, TRUE, "KEY_DELETE", "KEY_BACKSPACE")
    [] key = 1 -> BKpress(s, "KEY_RETURN")
    [] key = 2 ->
         IF shiftedKey(s)
           THEN LET s1 == setShifted(s, key, TRUE)
                IN  BKpress(IF s1.target = ASCII THEN unshift(s1) ELSE s1,
                            "KEY_LEFT_ARROW")
           ELSE BKpress(s, "KEY_RIGHT_ARROW")
    [] key = 3 -> pressF7(s)
    [] key = 4 -> pressF1(s)
    [] key = 5 -> pressAsciiShift(s, key, TRUE, "KEY_F4", "KEY_F3")
    [] key = 6 -> pressAsciiShift(s, key, TRUE, "KEY_F6", "KEY_F5")
    [] key = 7 -> pressCrsrDn(s)
    [] key = 17 -> BKpress([s EXCEPT !.lShifted = TRUE], "KEY_LEFT_SHIFT")
    [] key = 55 -> pressAsciiShift(s, key, TRUE, "[", AsData(s.keymap[key]))
    [] key = 56 -> pressAsciiShift(s, key, FALSE, "{", AsData(s.keymap[key]))
    [] key = 60 ->
         CASE s.target = VICE3 -> BKpress(s, "KEY_END")
           [] s.target = VICE2_BMC64 -> BKpress(s, "KEY_INSERT")
           [] OTHER -> BKpress(s, AsData(s.keymap[key]))
    [] key = 61 -> pressAsciiShift(s, key, FALSE, "}", AsData(s.keymap[key]))
    [] key = 62 -> pressAsciiShift(s, key, TRUE, "]", AsData(s.keymap[key]))
    [] key = 63 ->
         IF s.target = ASCII /\ shiftedKey(s)
           THEN BKpress(unshift([s EXCEPT !.clrPressed = TRUE]), "KEY_END")
           ELSE BKpress(s, "KEY_HOME")
    [] key = 64 -> BKpress([s EXCEPT !.rShifted = TRUE], "KEY_RIGHT_SHIFT")
    [] key = 65 ->
         LET s1 == IF s.target = ASCII THEN unshift(s) ELSE s
         IN  CASE s1.target = VICE3 -> BKpress(s1, "KEY_PAGE_DOWN")
               [] s1.target = MISTER -> BKpress(s1, "KEY_F10")
               [] OTHER -> BKpress(s1, AsData(s1.keymap[key]))
    [] key = 66 ->
         CASE s.target = MISTER -> BKpress(s, "KEY_F9")
           [] s.target = VICE2_BMC64 -> BKpress(s, "KEY_DELETE")
           [] OTHER -> BKpress(s, AsData(s.keymap[key]))
    [] key = 68 ->
         CASE s.target = MISTER -> BKpress(s, "KEY_F11")
           [] s.target = ASCII -> BKpress(s, "KEY_TAB")
           [] OTHER -> BKpress(s, "KEY_PAGE_UP")
    [] key = 72 ->
         LET s1 == [s EXCEPT !.ctrlPressed = TRUE]
         IN  IF s1.target = VICE3 \/ s1.target = VICE2_BMC64
               THEN BKpress(s1, "KEY_TAB")
               ELSE BKpress(s1, "KEY_LEFT_CTRL")
    [] key = 73 -> pressAsciiShift(s, key, FALSE, DQUOTE, AsData(s.keymap[key]))
    [] key = 75 ->
         LET s1 == [s EXCEPT !.cmdrPressed = TRUE]
         IN  IF misterOrASCII(s1)
               THEN BKpress(s1, "KEY_LEFT_ALT")
               ELSE BKpress(s1, "KEY_LEFT_CTRL")
    [] key = 77 -> BKpress(s, "KEY_ESC")
    [] OTHER -> BKpress(s, AsData(s.keymap[key]))

\* ------------------------------------------------------------------ release
\* Mutant: the release is chosen by the Shift state at release time.
releaseLatched_ByShiftNow(s, key, alt, plain) ==
  IF shiftedKey(s)
    THEN BKrelease(setShifted(s, key, FALSE), alt)
    ELSE BKrelease(setShifted(s, key, FALSE), plain)

\* The cases of release() of the form
\*   if (shifted[key]) { shifted[key] = false; release(alt); }
\*   else release(plain);
releaseLatched(s, key, alt, plain) ==
  IF s.shifted[key]
    THEN BKrelease(setShifted(s, key, FALSE), alt)
    ELSE BKrelease(s, plain)

\* Mutant: the latch is not looked at; the table's key is released.
releaseAsciiShift_Plain(s, key, alt, plain) == BKrelease(s, plain)

\* The cases of release() of the form
\*   if (target == ASCII && shifted[key]) { shifted[key] = false;
\*     release(alt); } else release(plain);
releaseAsciiShift(s, key, alt, plain) ==
  IF s.target = ASCII /\ s.shifted[key]
    THEN BKrelease(setShifted(s, key, FALSE), alt)
    ELSE BKrelease(s, plain)

\* case 3 of release(): F7.  The ASCII case has no break and falls through
\* into default.
releaseF7(s) ==
  CASE s.target = MISTER ->
         IF s.enterMenu
           THEN BKrelease([s EXCEPT !.enterMenu = FALSE], "KEY_F12")
           ELSE BKrelease(s, "KEY_F7")
    [] s.target = ASCII ->
         LET s1 == IF s.enterMenu
                     THEN BKrelease([s EXCEPT !.enterMenu = FALSE],
                                    "KEY_LEFT_WINDOWS")
                     ELSE IF s.shifted[3]
                            THEN BKrelease(setShifted(s, 3, FALSE), "KEY_F8")
                            ELSE BKrelease(s, "KEY_F7")
         IN  BKrelease(s1, "KEY_F7")
    [] OTHER -> BKrelease(s, "KEY_F7")

\* case 7 of release(): CRSRDN
releaseCrsrDn(s) ==
  LET page(s0, k) ==
        LET s1 == BKrelease([s0 EXCEPT !.pageScr = FALSE], k)
        IN  IF s1.ctrlPressed THEN BKpress(s1, "KEY_LEFT_CTRL") ELSE s1
  IN  IF s.shifted[7]
        THEN LET s1 == setShifted(s, 7, FALSE)
             IN  IF s1.pageScr /\ s1.target = ASCII
                   THEN page(s1, "KEY_PAGE_UP")
                   ELSE BKrelease(s1, "KEY_UP_ARROW")
        ELSE IF s.pageScr /\ s.target = ASCII
               THEN page(s, "KEY_PAGE_DOWN")
               ELSE BKrelease(s, "KEY_DOWN_ARROW")

\* The switch (key) of release().
releaseKey(s, key) ==
  CASE key = 23 -> releaseLatched(s, key, "&", AsData(s.keymap[key]))
    [] key = 30 ->
         IF s.shifted[key]
           THEN LET s1 == setShifted(s, key, FALSE)
                IN  CASE s1.target = MISTER -> BKrelease(s1, "^")
                      [] s1.target = ASCII -> BKrelease(s1, APOSTROPHE)
                      [] OTHER -> BKrelease(s1, AsData(s1.keymap[key]))
           ELSE BKrelease(s, AsData(s.keymap[key]))
    [] key = 33 -> releaseLatched(s, key, "(", AsData(s.keymap[key]))
    [] key = 40 -> releaseLatched(s, key, ")", AsData(s.keymap[key]))
    [] key = 0 -> releaseAsciiShift(s, key, "KEY_DELETE", "KEY_BACKSPACE")
    [] key = 1 -> BKrelease(s, "KEY_RETURN")
    [] key = 2 -> releaseLatched(s, key, "KEY_LEFT_ARROW", "KEY_RIGHT_ARROW")
    [] key = 3 -> releaseF7(s)
    [] key = 4 -> releaseAsciiShift(s, key, "KEY_F2", "KEY_F1")
    [] key = 5 -> releaseAsciiShift(s, key, "KEY_F4", "KEY_F3")
    [] key = 6 -> releaseAsciiShift(s, key, "KEY_F6", "KEY_F5")
    [] key = 7 -> releaseCrsrDn(s)
    [] key = 17 -> BKrelease([s EXCEPT !.lShifted = FALSE], "KEY_LEFT_SHIFT")
    [] key = 55 -> releaseAsciiShift(s, key, "[", AsData(s.keymap[key]))
    [] key = 56 -> releaseAsciiShift(s, key, "{", AsData(s.keymap[key]))
    [] key = 60 ->
         CASE s.target = VICE3 -> BKrelease(s, "KEY_END")
           [] s.target = VICE2_BMC64 -> BKrelease(s, "KEY_INSERT")
           [] OTHER -> BKrelease(s, AsData(s.keymap[key]))
    [] key = 61 -> releaseAsciiShift(s, key, "}", AsData(s.keymap[key]))
    [] key = 62 -> releaseAsciiShift(s, key, "]", AsData(s.keymap[key]))
    [] key = 63 ->
         IF s.clrPressed /\ s.target = ASCII
           THEN BKrelease([s EXCEPT !.clrPressed = FALSE], "KEY_END")
           ELSE BKrelease(s, "KEY_HOME")
    [] key = 64 -> BKrelease([s EXCEPT !.rShifted = FALSE], "KEY_RIGHT_SHIFT")
    [] key = 65 ->
         CASE s.target = VICE3 -> BKrelease(s, "KEY_PAGE_DOWN")
           [] s.target = MISTER -> BKrelease(s, "KEY_F10")
           [] OTHER -> BKrelease(s, AsData(s.keymap[key]))
    [] key = 66 ->
         CASE s.target = MISTER -> BKrelease(s, "KEY_F9")
           [] s.target = VICE2_BMC64 -> BKrelease(s, "KEY_DELETE")
           [] OTHER -> BKrelease(s, AsData(s.keymap[key]))
    [] key = 68 ->
         CASE s.target = MISTER -> BKrelease(s, "KEY_F11")
           [] s.target = ASCII -> BKrelease(s, "KEY_TAB")
           [] OTHER -> BKrelease(s, "KEY_PAGE_UP")
    [] key = 72 ->
         LET s1 == [s EXCEPT !.ctrlPressed = FALSE]
         IN  IF s1.target = VICE3 \/ s1.target = VICE2_BMC64
               THEN BKrelease(s1, "KEY_TAB")
               ELSE BKrelease(s1, "KEY_LEFT_CTRL")
    [] key = 73 -> releaseAsciiShift(s, key, DQUOTE, AsData(s.keymap[key]))
    [] key = 75 ->
         LET s1 == [s EXCEPT !.cmdrPressed = FALSE]
         IN  IF misterOrASCII(s1)
               THEN BKrelease(s1, "KEY_LEFT_ALT")
               ELSE BKrelease(s1, "KEY_LEFT_CTRL")
    [] key = 77 -> BKrelease(s, "KEY_ESC")
    [] OTHER -> BKrelease(s, AsData(s.keymap[key]))

\* Mutant: the left Shift is not restored.
restoreShift_LeftForgotten(s) ==
  IF s.rShifted THEN BKpress(s, "KEY_RIGHT_SHIFT") ELSE s

\* "Restore SHIFTed keyboard state": the last statements of release().
restoreShift(s) ==
  LET s1 == IF s.lShifted THEN BKpress(s, "KEY_LEFT_SHIFT") ELSE s
  IN  IF s1.rShifted THEN BKpress(s1, "KEY_RIGHT_SHIFT") ELSE s1

\* void release(uint8_t key)
release(s, key) == restoreShift(releaseKey(s, key))

\* --------------------------------------------------------------------- state
VARIABLES
  pc,            \* "boot": before setup(); "loop": inside loop()
  target,        \* int target
  keymap,        \* char keymap[80]
  lShifted, rShifted, ctrlPressed, cmdrPressed,
  enterMenu, pageScr, clrPressed,
  shifted,       \* bool shifted[80]
  lastKeyState,  \* int lastKeyState[80]
  debounceAge,   \* millis() - lastDebounceTime[k], saturated at debounceDelay
  eeprom,        \* the EEPROM byte at address 0
  sink,          \* the host keys the USB keyboard holds down
  row, col,      \* the cell loop() samples next; col = NumCols: row finished
  thisKey,       \* int thisKey
  keys,          \* the positions the environment may hold down in this run
  last,          \* what the last step did (observation only)
  downSeq,       \* per position: host keys its most recent press() put down
  sinceAccept,   \* per position: ms since its last accepted edge, saturated
  isKeyDown,     \* bool isKeyDown: the level the last digitalRead returned
  raw,           \* the column line of the traced positions (environment)
  sweep          \* what the current pass of loop() has done (observation only)

vars ==
  << pc, target, keymap, lShifted, rShifted, ctrlPressed, cmdrPressed,
     enterMenu, pageScr, clrPressed, shifted, lastKeyState, debounceAge,
     eeprom, sink, row, col, thisKey, keys, last, downSeq, sinceAccept,
     isKeyDown, raw, sweep >>

Min(a, b) == IF a < b THEN a ELSE b

\* Every age after ms more milliseconds.
Advance(age, ms) == [k \in DOMAIN age |-> Min(age[k] + ms, debounceDelay)]

\* The globals as the record the handlers work on.
Cur ==
  [ target |-> target, keymap |-> keymap, lShifted |-> lShifted,
    rShifted |-> rShifted, ctrlPressed |-> ctrlPressed,
    cmdrPressed |-> cmdrPressed, enterMenu |-> enterMenu,
    pageScr |-> pageScr, clrPressed |-> clrPressed, shifted |-> shifted,
    eeprom |-> eeprom, sink |-> sink, ops |-> << >>, elapsed |-> 0 ]

\* The globals take the values of the record s.
Becomes(s) ==
  /\ target' = s.target
  /\ keymap' = s.keymap
  /\ lShifted' = s.lShifted
  /\ rShifted' = s.rShifted
  /\ ctrlPressed' = s.ctrlPressed
  /\ cmdrPressed' = s.cmdrPressed
  /\ enterMenu' = s.enterMenu
  /\ pageScr' = s.pageScr
  /\ clrPressed' = s.clrPressed
  /\ shifted' = s.shifted
  /\ eeprom' = s.eeprom
  /\ sink' = s.sink

handlerVars ==
  << target, keymap, lShifted, rShifted, ctrlPressed, cmdrPressed, enterMenu,
     pageScr, clrPressed, shifted, eeprom, sink >>

\* ---------------------------------------------------------- observation
\* The globals a handler saw when it started.
Pre ==
  [ target |-> target, eeprom |-> eeprom,
    lShifted |-> lShifted, rShifted |-> rShifted,
    ctrlPressed |-> ctrlPressed, cmdrPressed |-> cmdrPressed, sink |-> sink ]

NoPre ==
  [ target |-> 0, eeprom |-> 0, lShifted |-> FALSE,
    rShifted |-> FALSE, ctrlPressed |-> FALSE, cmdrPressed |-> FALSE,
    sink |-> {} ]

\* kind: "init", "off", "setup", "press", "release", "same", "bounce",
\* "break", "rowend"; key: the position; ops: the external operations of the
\* step; gap: ms since the position's previous accepted edge; was: at a
\* release, what the position's press had put down; offTarget: the target that
\* was active when power was cut (0: none).
Obs(kind, key, ops, pre, gap, was, off) ==
  [ kind |-> kind, key |-> key, ops |-> ops, pre |-> pre, gap |-> gap,
    was |-> was, offTarget |-> off ]

Quiet(kind, key) == Obs(kind, key, << >>, NoPre, 0, << >>, 0)

RECURSIVE PutDownFrom(_, _)
\* The keys of the press operations ops[i..] that no earlier operation of ops
\* released (a press after a release of the same key re-asserts it).
PutDownFrom(ops, i) ==
  IF i > Len(ops) THEN << >>
  ELSE LET rest == PutDownFrom(ops, i + 1)
           o == ops[i]
       IN  IF /\ o.op = "press"
              /\ \A j \in 1..(i - 1) :
                   ~(ops[j].op = "release" /\ ops[j].key = o.key)
             THEN << o.key >> \o rest
             ELSE rest

PutDown(ops) == PutDownFrom(ops, 1)

RECURSIVE ReleasedFrom(_, _)
\* The keys of the release operations ops[i..], in order.
ReleasedFrom(ops, i) ==
  IF i > Len(ops) THEN << >>
  ELSE IF ops[i].op = "release"
         THEN << ops[i].key >> \o ReleasedFrom(ops, i + 1)
         ELSE ReleasedFrom(ops, i + 1)

Released(ops) == ReleasedFrom(ops, 1)

Reverse(q) == [i \in 1..Len(q) |-> q[Len(q) + 1 - i]]

\* ------------------------------------------------------------ the key lines
\* The groups of positions whose column line is traced between the reads: the
\* line changes level whenever the key moves, loop() sees it only when it
\* reads the position.
RawGroups == { {17} }

\* The same for the runs with one ordinary key, and with RESTORE, the one key
\* whose debounce timestamp loop() writes.
StarveGroups == { {17}, {68} }

Traced(ks) == IF ks \in RawGroups \cup StarveGroups THEN ks ELSE {}

\* Ages on a traced line are told apart up to one row past the window.
RawCap == debounceDelay + RowSettle

\* level: the key is down; edges: the level changes since the position was
\* last read and acted on (2: two or more); apart: two of them were more than
\* debounceDelay ms apart; age: ms since the last change, saturated.
RawLine(level) ==
  [level |-> level, edges |-> 0, apart |-> FALSE, age |-> RawCap]

AdvanceRaw(r, ms) ==
  [p \in DOMAIN r |-> [r[p] EXCEPT !.age = Min(@ + ms, RawCap)]]

ReadRaw(r, k) ==
  [p \in DOMAIN r |->
     IF p = k THEN [r[p] EXCEPT !.edges = 0, !.apart = FALSE] ELSE r[p]]

\* ------------------------------------------------------- one pass of loop()
\* visited: the positions read so far in this pass; again: one was read a
\* second time; ordered: each was above all those read before it; done: the
\* pass has finished its last row; col8Active: the reads of column 8 that
\* returned active; col8Events: the events dispatched for column 8;
\* restoreWas: lastKeyState[68] when the pass began; f1Press: the operations
\* of the press of F1 (4) that this pass dispatched.
NewSweep ==
  [ visited |-> {}, again |-> FALSE, ordered |-> TRUE, done |-> FALSE,
    col8Active |-> 0, col8Events |-> << >>, restoreWas |-> FALSE,
    f1Press |-> << >> ]

\* ----------------------------------------------------------------------- Init
\* Power-on: the globals are zero, the EEPROM holds any byte.
InitFor(groups) ==
  /\ pc = "boot"
  /\ eeprom \in 0..255
  /\ keys \in groups
  /\ target = 0
  /\ keymap = [p \in Positions |-> NUL]
  /\ lShifted = FALSE /\ rShifted = FALSE
  /\ ctrlPressed = FALSE /\ cmdrPressed = FALSE
  /\ enterMenu = FALSE /\ pageScr = FALSE /\ clrPressed = FALSE
  /\ shifted = [p \in Positions |-> FALSE]
  /\ lastKeyState = [p \in Positions |-> FALSE]
  /\ debounceAge = [p \in Positions |-> 0]
  /\ sink = {}
  /\ row = 0 /\ col = 0 /\ thisKey = 0
  /\ last = Quiet("init", 0)
  /\ downSeq = [p \in keys |-> << >>]
  /\ sinceAccept = [p \in keys |-> debounceDelay]
  /\ isKeyDown = FALSE
  /\ raw = [p \in Traced(keys) |-> RawLine(FALSE)]
  /\ sweep = NewSweep

Init == InitFor(KeyGroups)

\* ---------------------------------------------------------------------- setup
\* The target setup() adopts for the stored byte b.
LoadTarget(b) == IF b < 1 \/ b > MAXTARGETS THEN 1 ELSE b

\* Mutant: only the upper end of the range is tested.
setup_NoLowCheck(s) ==
  LET s1 == BKreleaseAll(s)
      s2 == [s1 EXCEPT !.target = s1.eeprom]
      s3 == IF s2.target > MAXTARGETS
              THEN EEPROMwrite([s2 EXCEPT !.target = 1], 1)
              ELSE s2
      s4 == delay(doSetKeymap(s3), LED_START_DELAY)
  IN  blinkLED(s4, s4.target)

\* setup() on the globals: releaseAll, read the target, correct it, build the
\* table, wait, blink.
setup(s) ==
  LET s1 == BKreleaseAll(s)
      s2 == [s1 EXCEPT !.target = s1.eeprom]
      s3 == IF s2.target < 1 \/ s2.target > MAXTARGETS
              THEN EEPROMwrite([s2 EXCEPT !.target = 1], 1)
              ELSE s2
      s4 == delay(doSetKeymap(s3), LED_START_DELAY)
  IN  blinkLED(s4, s4.target)

Setup ==
  /\ pc = "boot"
  /\ LET s == setup(Cur)
     IN  /\ Becomes(s)
         /\ debounceAge' = Advance(debounceAge, s.elapsed)
         /\ sinceAccept' = Advance(sinceAccept, s.elapsed)
         /\ last' = Obs("setup", 0, s.ops, Pre, 0, << >>, last.offTarget)
  /\ lastKeyState' = [p \in Positions |-> FALSE]
  /\ pc' = "loop"
  /\ row' = 0 /\ col' = 0 /\ thisKey' = 0
  /\ isKeyDown' = FALSE
  /\ sweep' = NewSweep
  /\ UNCHANGED << keys, downSeq, raw >>

\* Power is cut and restored: every global is zero again, the host sees the
\* keyboard go away, the EEPROM keeps its byte.
PowerCycle ==
  /\ pc = "loop"
  /\ pc' = "boot"
  /\ target' = 0
  /\ keymap' = [p \in Positions |-> NUL]
  /\ lShifted' = FALSE /\ rShifted' = FALSE
  /\ ctrlPressed' = FALSE /\ cmdrPressed' = FALSE
  /\ enterMenu' = FALSE /\ pageScr' = FALSE /\ clrPressed' = FALSE
  /\ shifted' = [p \in Positions |-> FALSE]
  /\ lastKeyState' = [p \in Positions |-> FALSE]
  /\ debounceAge' = [p \in Positions |-> 0]
  /\ sink' = {}
  /\ row' = 0 /\ col' = 0 /\ thisKey' = 0
  /\ last' = Obs("off", 0, << >>, NoPre, 0, << >>, target)
  /\ downSeq' = [p \in keys |-> << >>]
  /\ sinceAccept' = [p \in keys |-> debounceDelay]
  /\ isKeyDown' = FALSE
  /\ raw' = [p \in DOMAIN raw |-> RawLine(raw[p].level)]
  /\ sweep' = NewSweep
  /\ UNCHANGED << eeprom, keys >>

\* ----------------------------------------------------------------------- loop
\* Mutant: no position of column 8 is ignored.
Filtered_None(k) == k # k

\* Column 8 is the RESTORE line: it reads on every row and only 68 is a key.
Filtered(k) == k % RowStride = 8 /\ k # 68

\* Mutant: the window includes its boundary.
Bouncing_Inclusive(k) == debounceAge[k] <= debounceDelay

\* The debounce test of loop(): millis() < lastDebounceTime[k] + debounceDelay
Bouncing(k) == debounceAge[k] < debounceDelay

NumDown == Cardinality({p \in Positions : lastKeyState[p]})

\* The levels digitalRead may return for position k: the level of the line
\* when the position is traced; else any level, but a position outside the
\* run's group of keys is never down, and at most MaxDown positions are.
Levels(k) ==
  IF k \in DOMAIN raw
    THEN {raw[k].level}
  ELSE IF k \in keys /\ (lastKeyState[k] \/ NumDown < MaxDown)
    THEN BOOLEAN
    ELSE {FALSE}

\* Mutant: a key that reads down is pressed whatever its debounced state.
PressEdge_NoStateTest(down, k) == down

\* isKeyDown && !lastKeyState[thisKey]
PressEdge(down, k) == down /\ ~lastKeyState[k]

\* !isKeyDown && lastKeyState[thisKey]
ReleaseEdge(down, k) == ~down /\ lastKeyState[k]

\* The pass of loop() after position k was read as down and the event ev
\* ("press", "release" or "none") dispatched; the read of (0, 0) begins a pass.
SweepAfter(k, down, ev) ==
  LET b == IF row = 0 /\ col = 0
             THEN [NewSweep EXCEPT !.restoreWas = lastKeyState[68]]
             ELSE sweep
  IN  [b EXCEPT !.visited = @ \cup {k},
                !.again = @ \/ k \in b.visited,
                !.ordered = @ /\ \A v \in b.visited : v < k,
                !.col8Active = IF k % RowStride = 8 /\ down THEN @ + 1 ELSE @,
                !.col8Events = IF k % RowStride = 8 /\ ev # "none"
                                 THEN Append(@, << ev, k >>)
                                 ELSE @]

\* One pass of the body of the column loop: the cell (row, col) is sampled
\* and, when the read level is a debounced edge, dispatched.
Sample ==
  /\ pc = "loop"
  /\ col < NumCols
  /\ LET k == col + row * RowStride
     IN  /\ thisKey' = k
         /\ \E down \in Levels(k) :
              /\ isKeyDown' = down
              /\ IF Filtered(k)
                   THEN \* break
                        /\ col' = NumCols
                        /\ last' = Quiet("break", k)
                        /\ sweep' = SweepAfter(k, down, "none")
                        /\ UNCHANGED << handlerVars, lastKeyState, debounceAge,
                                        downSeq, sinceAccept, raw >>
                 ELSE IF Bouncing(k)
                   THEN \* continue
                        /\ col' = col + 1
                        /\ last' = Quiet("bounce", k)
                        /\ sweep' = SweepAfter(k, down, "none")
                        /\ UNCHANGED << handlerVars, lastKeyState, debounceAge,
                                        downSeq, sinceAccept, raw >>
                 ELSE IF PressEdge(down, k)
                   THEN LET s == press(Cur, k)
                        IN  /\ Becomes(s)
                            /\ lastKeyState' = [lastKeyState EXCEPT ![k] = TRUE]
                            /\ debounceAge' = Advance(debounceAge, s.elapsed)
                            /\ sinceAccept' =
                                 Advance([sinceAccept EXCEPT ![k] = 0], s.elapsed)
                            /\ downSeq' = [downSeq EXCEPT ![k] = PutDown(s.ops)]
                            /\ last' = Obs("press", k, s.ops, Pre, sinceAccept[k],
                                         << >>, 0)
                            /\ raw' = AdvanceRaw(ReadRaw(raw, k), s.elapsed)
                            /\ sweep' =
                                 [SweepAfter(k, down, "press") EXCEPT
                                    !.f1Press = IF k = 4 THEN s.ops ELSE @]
                            /\ col' = col + 1
                 ELSE IF ReleaseEdge(down, k)
                   THEN LET s == release(Cur, k)
                        IN  /\ Becomes(s)
                            /\ lastKeyState' = [lastKeyState EXCEPT ![k] = FALSE]
                            /\ debounceAge' = Advance(debounceAge, s.elapsed)
                            /\ sinceAccept' =
                                 Advance([sinceAccept EXCEPT ![k] = 0], s.elapsed)
                            /\ last' = Obs("release", k, s.ops, Pre, sinceAccept[k],
                                         downSeq[k], 0)
                            /\ raw' = AdvanceRaw(ReadRaw(raw, k), s.elapsed)
                            /\ sweep' = SweepAfter(k, down, "release")
                            /\ col' = col + 1
                            /\ downSeq' = [downSeq EXCEPT ![k] = << >>]
                 ELSE /\ col' = col + 1
                      /\ last' = Quiet("same", k)
                      /\ raw' = ReadRaw(raw, k)
                      /\ sweep' = SweepAfter(k, down, "none")
                      /\ UNCHANGED << handlerVars, lastKeyState, debounceAge,
                                      downSeq, sinceAccept >>
  /\ UNCHANGED << pc, row, keys >>

\* Mutant: no settle delay after a row.
RowDelay_None == RowSettle - RowSettle

\* The milliseconds the delay(1) after a row takes.
RowDelay == RowSettle

\* Mutant: the row loop stops one row early.
NextRow_StopsEarly(r) == IF r + 1 >= NumRows - 1 THEN 0 ELSE r + 1

\* The row after row r: for (row = 0; row < 8; row++), and loop() again.
NextRow(r) == (r + 1) % NumRows

\* The end of a row: lastDebounceTime[thisKey] = millis(), the row line goes
\* high, delay(1), next row.  After row 7 loop() returns and is called again,
\* which clears thisKey and isKeyDown.
RowEnd ==
  /\ pc = "loop"
  /\ col = NumCols
  /\ debounceAge' = Advance([debounceAge EXCEPT ![thisKey] = 0], RowDelay)
  /\ sinceAccept' = Advance(sinceAccept, RowDelay)
  /\ raw' = AdvanceRaw(raw, RowDelay)
  /\ row' = NextRow(row)
  /\ col' = 0
  /\ thisKey' = IF NextRow(row) = 0 THEN 0 ELSE thisKey
  /\ isKeyDown' = IF NextRow(row) = 0 THEN FALSE ELSE isKeyDown
  /\ sweep' = [sweep EXCEPT !.done = (NextRow(row) = 0)]
  /\ last' = Quiet("rowend", thisKey)
  /\ UNCHANGED << pc, handlerVars, lastKeyState, keys, downSeq >>

\* The key of a traced position moves: its line changes level.
Flip ==
  /\ pc = "loop"
  /\ \E p \in DOMAIN raw :
       /\ raw' = [raw EXCEPT ![p] =
                    [ level |-> ~@.level,
                      edges |-> Min(@.edges + 1, 2),
                      apart |-> @.apart \/ (@.edges >= 1 /\ @.age > debounceDelay),
                      age |-> 0 ]]
       /\ last' = Quiet("flip", p)
  /\ UNCHANGED << pc, handlerVars, lastKeyState, debounceAge, row, col,
                  thisKey, keys, downSeq, sinceAccept, isKeyDown, sweep >>

Next == Setup \/ Sample \/ RowEnd \/ PowerCycle

Spec == Init /\ [][Next]_vars

\* The same program, the environment choosing among all the groups of keys.
InitAllKeys == InitFor(AllKeyGroups)

SpecAllKeys == InitAllKeys /\ [][Next]_vars

\* The same program, one run with the RESTORE line: column 8 may read active
\* on any row, and Left Shift is a key.
RestoreGroups == { {8, 18, 28, 38, 48, 58, 68, 78, 17} }

InitRestore == InitFor(KeyGroups \cup RestoreGroups)

SpecRestore == InitRestore /\ [][Next]_vars

\* One run of the sketch from power-on, power never cut: the Arduino core
\* calls loop() again and again once setup() has returned, and every delay
\* and every handler ends, so the loops of loop() keep taking their steps.
LiveGroups == { {4, 17, 75} }

InitLive == InitFor(LiveGroups)

NextLive == Setup \/ Sample \/ RowEnd

SpecLive ==
  /\ InitLive
  /\ [][NextLive]_vars
  /\ WF_vars(Sample \/ RowEnd)

\* The run of SpecLive with the line of Left Shift or of RESTORE traced: the
\* key moves when it likes, the loops keep taking their steps.
InitStarve == InitFor(StarveGroups)

NextStarve == Setup \/ Sample \/ RowEnd \/ Flip

SpecStarve ==
  /\ InitStarve
  /\ [][NextStarve]_vars
  /\ WF_vars(Sample \/ RowEnd)

\* The same program, the keys being the Shift keys and the digits 6, 7, 8, 9, 0.
DigitGroups == { {17, 64, 23, 30}, {17, 33, 40, 43} }

InitDigits == InitFor(DigitGroups)

SpecDigits == InitDigits /\ [][Next]_vars

\* The same program, the keys being those of the digit row or those that
\* change the target while 7 or 6 is held.
DigitCycleGroups == DigitGroups \cup { {4, 17, 30, 75}, {4, 17, 23, 75} }

InitDigitsCycle == InitFor(DigitCycleGroups)

SpecDigitsCycle == InitDigitsCycle /\ [][Next]_vars

\* The same program, the keys being the function keys with the Shift keys, or
\* F3 with the keys that change the target.
FKeyGroups == { {3, 6, 17, 64}, {4, 5, 17, 75} }

InitFKeys == InitFor(FKeyGroups)

SpecFKeys == InitFKeys /\ [][Next]_vars

\* The same program, the keys being F7, Commodore and one other key: F1, a
\* Shift, Ctrl, a cursor key, DEL, 0, 7, Restore or a letter.
MenuGroups == { {3, 75, k} : k \in {4, 17, 64, 72, 7, 2, 0, 43, 30, 68, 12} }

InitMenu == InitFor(MenuGroups)

SpecMenu == InitMenu /\ [][Next]_vars

\* The same program, one run tracing the line of a key between the reads.
InitRaw == InitFor(KeyGroups \cup RawGroups)

NextRaw == Next \/ Flip

SpecRaw == InitRaw /\ [][NextRaw]_vars

TypeOK ==
  /\ pc \in {"boot", "loop"}
  /\ target \in 0..MAXTARGETS
  /\ eeprom \in 0..255
  /\ row \in 0..(NumRows - 1)
  /\ col \in 0..NumCols
  /\ thisKey \in Positions

\* ===================================================================== claims
IsDispatch == last.kind \in {"press", "release"}

\* The last step was press(4) with C= held: the target-cycling handler.
IsCycle == last.kind = "press" /\ last.key = 4 /\ last.pre.cmdrPressed

HasOp(ops, o) == \E i \in DOMAIN ops : ops[i].op = o

\* keymap[] as one setKeymap() call builds it from the zeroed array, for each
\* value of target.
FreshTables ==
  [t \in 0..MAXTARGETS |-> setKeymap([p \in Positions |-> NUL], t)]

FreshKeymap(t) == FreshTables[t]

\* C1: the sink operations of release(position) undo exactly what the most
\* recent press(position) put down: the keys it releases, in order, are the
\* keys that press put down, in reverse order, whatever happened to Shift,
\* Ctrl or Commodore in between.
C1_ReleaseInvertsPress ==
  last.kind = "release" => Released(last.ops) = Reverse(last.was)

\* C2: at the end of every release() the sink holds Left Shift exactly when
\* lShifted and Right Shift exactly when rShifted.
C2_ShiftRestored ==
  last.kind = "release" =>
    /\ ("KEY_LEFT_SHIFT" \in sink) = lShifted
    /\ ("KEY_RIGHT_SHIFT" \in sink) = rShifted

\* A key whose press had taken the host's Left Shift away (0, with Left Shift
\* held throughout) is released, and Left Shift is down again.
C2_Witness ==
  /\ last.kind = "release"
  /\ last.key = 43
  /\ last.pre.lShifted
  /\ "KEY_LEFT_SHIFT" \notin last.pre.sink
  /\ "KEY_LEFT_SHIFT" \in sink

\* The rotation the documentation describes, as a table.
C3_Expected(old, ctrl, shift) ==
  IF ctrl THEN 1
  ELSE IF shift
         THEN CASE old = 1 -> 4 [] old = 2 -> 1 [] old = 3 -> 2 [] old = 4 -> 3
         ELSE CASE old = 1 -> 2 [] old = 2 -> 3 [] old = 3 -> 4 [] old = 4 -> 1

\* C3: press(F1) with Commodore held sets the target to 1 if Ctrl is held,
\* else to the previous target (1 wraps to 4) if a Shift is held, else to the
\* next target (4 wraps to 1).
C3_TargetRotation ==
  IsCycle =>
    target = C3_Expected(last.pre.target, last.pre.ctrlPressed,
                         last.pre.lShifted \/ last.pre.rShifted)

\* Commodore+Shift+F1 on target 1 went to target 4.
C3_Witness ==
  /\ IsCycle
  /\ last.pre.target = 1
  /\ last.pre.lShifted
  /\ ~last.pre.ctrlPressed
  /\ target = 4

\* C4: a Commodore+F1 press does exactly store(new target), releaseAll,
\* rebuild of the table for the new target, notify(new target), in this
\* order, presses nothing, and leaves the sink empty and the table built for
\* the new target before the next cell is sampled.
C4_CycleSequence ==
  IsCycle =>
    /\ last.ops = << Op("store", "", target), Op("releaseAll", "", 0),
                     Op("setKeymap", "", target), Op("blinkLED", "", target) >>
    /\ eeprom = target
    /\ sink = {}
    /\ keymap = FreshKeymap(target)

\* A Commodore+F1 press found host keys down and left none.
C4_Witness ==
  /\ IsCycle
  /\ last.pre.sink # {}
  /\ sink = {}
  /\ target # last.pre.target

\* C5: EEPROM is written only when the target changes value: outside setup(),
\* a step writes it only if it is a Commodore+F1 press whose new target
\* differs from the old one.
C5_StoreOnlyOnChange ==
  (last.kind # "setup" /\ HasOp(last.ops, "store")) =>
    (IsCycle /\ target # last.pre.target)

\* C6: while loop() runs the EEPROM byte is the active target, so setup()
\* after a power cycle adopts the target that was active when power was cut.
C6_PersistedIsActive ==
  /\ pc = "loop" => (eeprom = target /\ LoadTarget(eeprom) = target)
  /\ (last.kind = "setup" /\ last.offTarget # 0) => target = last.offTarget

\* Power was cut while target 2 was active, and setup() came back with it.
C6_Witness ==
  /\ last.kind = "setup"
  /\ last.offTarget = 2
  /\ last.pre.eeprom = 2
  /\ target = 2

\* C7: setup() with a stored byte outside 1..4 makes the target 1 and writes
\* 1; with a byte in 1..4 it adopts it and writes nothing; then it builds the
\* table for the target and blinks the target's number, once.
C7_SetupLoad ==
  last.kind = "setup" =>
    LET b == last.pre.eeprom
        valid == b \in 1..4
    IN  /\ target = (IF valid THEN b ELSE 1)
        /\ eeprom = target
        /\ last.ops =
             << Op("releaseAll", "", 0) >>
             \o (IF valid THEN << >> ELSE << Op("store", "", 1) >>)
             \o << Op("setKeymap", "", target), Op("blinkLED", "", target) >>
        /\ keymap = FreshKeymap(target)

\* setup() found 255 in the EEPROM.
C7_Witness ==
  /\ last.kind = "setup"
  /\ last.pre.eeprom = 255
  /\ target = 1
  /\ eeprom = 1

\* C8: only press(F1) with Commodore held changes the target: every other
\* press and every release leaves target, EEPROM byte and table as they were
\* and calls neither releaseAll nor blinkLED.
C8_OnlyCycleMutatesTarget ==
  [][ (IsDispatch' /\ ~IsCycle') =>
        /\ target' = target
        /\ eeprom' = eeprom
        /\ keymap' = keymap
        /\ ~HasOp(last'.ops, "releaseAll")
        /\ ~HasOp(last'.ops, "blinkLED")
        /\ ~HasOp(last'.ops, "store")
        /\ ~HasOp(last'.ops, "setKeymap") ]_vars

\* F1 was pressed with Ctrl held and Commodore up, and the target stayed.
C8_Witness ==
  /\ last.kind = "press"
  /\ last.key = 4
  /\ ~last.pre.cmdrPressed
  /\ last.pre.ctrlPressed
  /\ target = last.pre.target

\* C9: after setup() the target is one of 1..4.
C9_TargetInRange == pc = "loop" => target \in 1..4

\* Commodore+F1 on target 4 wrapped to target 1.
C9_Witness ==
  /\ IsCycle
  /\ last.pre.target = 4
  /\ ~last.pre.ctrlPressed
  /\ ~(last.pre.lShifted \/ last.pre.rShifted)
  /\ target = 1

\* C10: an edge of a position is accepted only debounceDelay ms or more after
\* the previous accepted edge of the same position.
C10_SettleWindow == IsDispatch => last.gap >= debounceDelay

\* A release was accepted: the second accepted edge of its position.
C10_Witness ==
  /\ last.kind = "release"
  /\ last.key = 17
  /\ last.gap >= debounceDelay

\* C11: debounce state is per cell: while loop() runs, the time since a
\* position's debounce timestamp was written is the time since that position's
\* own last accepted transition (for a position that never had one: since
\* power-on), so no row end, sweep end or other position ever moves it.
C11_PerCellTimestamp ==
  pc = "loop" =>
    \A p \in Positions :
      debounceAge[p] = IF p \in keys THEN sinceAccept[p] ELSE debounceDelay

\* This step is one pass of the body of the column loop.
SampleStep == pc = "loop" /\ pc' = "loop" /\ col < NumCols /\ col' # col

\* The read of this step found the level of a position of the matrix other
\* than its debounced state, debounceDelay ms or more after the position's
\* timestamp.
ReadsEdgeAfterWindow ==
  /\ SampleStep
  /\ ~Filtered(thisKey')
  /\ debounceAge[thisKey'] >= debounceDelay
  /\ isKeyDown' # lastKeyState[thisKey']

\* The step dispatched the event of the level it read, for the position it
\* read.
DispatchedItsRead ==
  /\ last'.kind = (IF isKeyDown' THEN "press" ELSE "release")
  /\ last'.key = thisKey'
  /\ lastKeyState'[thisKey'] = isKeyDown'

C13_StrictAlternation ==
  /\ [](last.kind = "setup" => \A p \in Positions : ~lastKeyState[p])
  /\ [][ (pc = "loop" /\ pc' = "loop") =>
           LET k == thisKey'
           IN  IF SampleStep
                 THEN /\ last'.kind = "press" =>
                           (~lastKeyState[k] /\ lastKeyState'[k] /\ isKeyDown')
                      /\ last'.kind = "release" =>
                           (lastKeyState[k] /\ ~lastKeyState'[k] /\ ~isKeyDown')
                      /\ isKeyDown' = lastKeyState[k] =>
                           /\ ~IsDispatch'
                           /\ last'.ops = << >>
                           /\ lastKeyState'[k] = lastKeyState[k]
                           /\ sink' = sink
                      /\ \A p \in Positions \ {k} :
                           lastKeyState'[p] = lastKeyState[p]
                 ELSE lastKeyState' = lastKeyState ]_vars

\* Commodore+F1 changed the target with Left Shift held: Shift, Commodore and
\* F1 are still debounced down and the host holds no key.
C13_Witness ==
  /\ IsCycle
  /\ target # last.pre.target
  /\ lastKeyState[17]
  /\ lastKeyState[75]
  /\ lastKeyState[4]
  /\ sink = {}

\* C14: no press or release is ever dispatched for position 8, 18, 28, 38,
\* 48, 58 or 78; and a pass of loop() that began with Restore up and read
\* column 8 active on all eight rows dispatched exactly one event for column
\* 8, the press of position 68 (a pass that began with Restore already down
\* dispatched none).
C14_RestoreOnlyOnce ==
  /\ IsDispatch => ~(last.key % RowStride = 8 /\ last.key # 68)
  /\ \A i \in DOMAIN sweep.col8Events : sweep.col8Events[i][2] = 68
  /\ (sweep.done /\ sweep.col8Active = NumRows) =>
       sweep.col8Events =
         IF sweep.restoreWas THEN << >> ELSE << << "press", 68 >> >>

\* A pass ended in which column 8 read active on every row: Restore was
\* pressed once.
C14_Witness ==
  /\ sweep.done
  /\ sweep.col8Active = NumRows
  /\ ~sweep.restoreWas
  /\ sweep.col8Events = << << "press", 68 >> >>
  /\ lastKeyState[68]
  /\ \A p \in {8, 18, 28, 38, 48, 58, 78} : ~lastKeyState[p]

\* C15: within a pass of loop() each position read is above all those read
\* before it (row by row, column by column) and none is read twice; an event
\* is dispatched in the step that read its position, before the next position
\* is read; a pass that ended has read every valid position and so visited
\* all eight rows; once loop() runs, again and again a pass ends and another
\* one begins.
C15_SweepOrder ==
  /\ [](sweep.ordered /\ ~sweep.again)
  /\ [](IsDispatch => (last.key = thisKey /\ thisKey \in sweep.visited))
  /\ [](sweep.done =>
          /\ ValidPositions \subseteq sweep.visited
          /\ \A r \in 0..(NumRows - 1) :
               \E p \in sweep.visited : p \div RowStride = r)
  /\ [][ SampleStep => thisKey' = col + row * RowStride ]_vars
  /\ (pc = "loop") ~> sweep.done
  /\ (pc = "loop") ~> ~sweep.done

\* A pass ended that had read all 72 cells, with three keys held down.
C15_Witness ==
  /\ sweep.done
  /\ ValidPositions \subseteq sweep.visited
  /\ Cardinality(sweep.visited) = NumRows * NumCols
  /\ lastKeyState[17]
  /\ lastKeyState[75]
  /\ lastKeyState[4]

\* C16: while loop() runs, keymap[] is the table setKeymap() builds for the
\* target from an empty array; it has an entry for every valid position;
\* and each time setKeymap() has run (in setup() and in a Commodore+F1 press),
\* building for any target on top of the array it left gives the table built
\* for that target from an empty array, and building a second time changes
\* nothing.
C16_TablePureInTarget ==
  pc = "loop" =>
    /\ keymap = FreshKeymap(target)
    /\ \A p \in ValidPositions : keymap[p] # NUL
    /\ (last.kind = "setup" \/ IsCycle) =>
         \A t \in Targets :
           /\ setKeymap(keymap, t) = FreshKeymap(t)
           /\ setKeymap(setKeymap(keymap, t), t) = setKeymap(keymap, t)

\* Commodore+Shift+F1 went from MISTER back to VICE3: the entries MISTER had
\* overridden (CTRL, RESTORE) are the default ones again.
C16_Witness ==
  /\ IsCycle
  /\ last.pre.target = MISTER
  /\ target = VICE3
  /\ keymap[72] = "KEY_TAB"
  /\ keymap[68] = "KEY_PAGE_UP"
  /\ keymap = FreshKeymap(VICE3)

\* A Shift key was held when the handler of the last step began.
ShiftWasHeld == last.pre.lShifted \/ last.pre.rShifted

\* The operations of unshift() for the handler of the last step.
UnshiftOps ==
  (IF last.pre.lShifted THEN << Op("release", "KEY_LEFT_SHIFT", 0) >> ELSE << >>)
  \o (IF last.pre.rShifted THEN << Op("release", "KEY_RIGHT_SHIFT", 0) >> ELSE << >>)

\* The digit of a position of the digit row, and the symbol its press emits
\* instead with Shift held on target t.
DigitOf(key) ==
  CASE key = 23 -> "6" [] key = 30 -> "7" [] key = 33 -> "8"
    [] key = 40 -> "9" [] key = 43 -> "0"

AlternateOf(key, t) ==
  CASE key = 23 -> "&"
    [] key = 30 -> (IF t = MISTER THEN "^" ELSE APOSTROPHE)
    [] key = 33 -> "("
    [] key = 40 -> ")"

\* C17 (as amended): a press of 6, 7, 8 or 9 with Shift held on ASCII or
\* MISTER emits the alternate symbol (on ASCII the 7 key releases the held
\* host Shift keys first) and sets the position's latch; otherwise it emits
\* the digit of the table.  A press of 0 on any target releases the held host
\* Shift keys and emits the table's 0; it has no alternate and sets no latch.
C17_DigitRow ==
  /\ (last.kind = "press" /\ last.key \in {23, 30, 33, 40}) =>
       IF ShiftWasHeld /\ target \in {ASCII, MISTER}
         THEN /\ last.ops =
                   (IF last.key = 30 /\ target = ASCII THEN UnshiftOps ELSE << >>)
                   \o << Op("press", AlternateOf(last.key, target), 0) >>
              /\ shifted[last.key]
         ELSE /\ last.ops = << Op("press", DigitOf(last.key), 0) >>
              /\ keymap[last.key] = DigitOf(last.key)
  /\ (last.kind = "press" /\ last.key = 43) =>
       /\ last.ops = UnshiftOps \o << Op("press", "0", 0) >>
       /\ keymap[43] = "0"
       /\ ~shifted[43]

\* 6 was pressed on MISTER with Right Shift held: "&" went down and the latch
\* of position 23 is set.
C17_Witness ==
  /\ last.kind = "press"
  /\ last.key = 23
  /\ target = MISTER
  /\ last.pre.rShifted
  /\ "&" \in sink
  /\ "6" \notin sink
  /\ shifted[23]

\* C17 (as stated): a press of 6, 7, 8, 9 or 0 with Shift held on ASCII or
\* MISTER emits a symbol other than the digit and sets the position's latch;
\* on VICE2_BMC64 and VICE3 it emits the digit of the table.
C17_AlternateForAllFive ==
  (last.kind = "press" /\ last.key \in {23, 30, 33, 40, 43} /\ ShiftWasHeld) =>
    LET pressed == PutDown(last.ops)
    IN  IF target \in {ASCII, MISTER}
          THEN /\ Len(pressed) = 1
               /\ pressed[1] # DigitOf(last.key)
               /\ shifted[last.key]
          ELSE pressed = << DigitOf(last.key) >>

\* The symbol release(30) releases when the latch of 7 is set, on target t.
LatchedSevenOn(t) ==
  CASE t = MISTER -> "^" [] t = ASCII -> APOSTROPHE [] OTHER -> "7"

\* The press of the position released in the last step had put down exactly
\* the alternate symbol of a digit key.
AlternateWasDown ==
  /\ last.kind = "release"
  /\ last.key \in {23, 30, 33, 40}
  /\ Len(last.was) = 1
  /\ last.was[1] # DigitOf(last.key)

LiteralOf(key) ==
  CASE key = 4 -> "KEY_F1" [] key = 5 -> "KEY_F3" [] key = 6 -> "KEY_F5"
    [] key = 3 -> "KEY_F7"

ShiftAlternateOf(key) ==
  CASE key = 4 -> "KEY_F2" [] key = 5 -> "KEY_F4" [] key = 6 -> "KEY_F6"
    [] key = 3 -> "KEY_F8"

\* C19: with Commodore not held, a press of F1, F3, F5 or F7 on ASCII with
\* Shift held releases the held host Shift keys and then presses F2, F4, F6
\* or F8, and otherwise presses the literal key and nothing else; and the
\* release of a function key whose press had put down its alternate emits
\* the release of that alternate.
C19_ShiftedFunctionKeys ==
  /\ (last.kind = "press" /\ last.key \in {3, 4, 5, 6} /\ ~last.pre.cmdrPressed) =>
       last.ops =
         IF target = ASCII /\ ShiftWasHeld
           THEN UnshiftOps \o << Op("press", ShiftAlternateOf(last.key), 0) >>
           ELSE << Op("press", LiteralOf(last.key), 0) >>
  /\ ( /\ last.kind = "release"
       /\ last.key \in {3, 4, 5, 6}
       /\ last.was = << ShiftAlternateOf(last.key) >> )
     => \E i \in DOMAIN last.ops :
          last.ops[i] = Op("release", ShiftAlternateOf(last.key), 0)

\* The last step was press(3) with Commodore held: the menu key.
IsMenuPress == last.kind = "press" /\ last.key = 3 /\ last.pre.cmdrPressed

\* C20: press(F7) with Commodore held emits exactly release(Left Alt),
\* press(F12), press(Left Alt) on MISTER, release(Left Alt), press(Left
\* Windows) on ASCII and press(F7) on VICE2_BMC64 and VICE3; on MISTER and
\* ASCII it sets the menu latch, and no other step ever sets it.
C20_MenuSequence ==
  /\ [](IsMenuPress =>
          /\ last.ops =
               CASE target = MISTER ->
                      << Op("release", "KEY_LEFT_ALT", 0), Op("press", "KEY_F12", 0),
                         Op("press", "KEY_LEFT_ALT", 0) >>
                 [] target = ASCII ->
                      << Op("release", "KEY_LEFT_ALT", 0),
                         Op("press", "KEY_LEFT_WINDOWS", 0) >>
                 [] OTHER -> << Op("press", "KEY_F7", 0) >>
          /\ target \in {MISTER, ASCII} => enterMenu)
  /\ [][ (~enterMenu /\ enterMenu') =>
           (IsMenuPress' /\ target' \in {MISTER, ASCII}) ]_vars

\* Commodore+F7 on MISTER: F12 is down, Left Alt is down again, the latch is
\* set.
C20_Witness ==
  /\ IsMenuPress
  /\ target = MISTER
  /\ enterMenu
  /\ "KEY_F12" \in sink
  /\ "KEY_LEFT_ALT" \in sink
  /\ "KEY_F7" \notin sink

\* C21: when the menu latch is set, the release of F7 emits the release of
\* F12 on MISTER or of Left Windows on ASCII and no other release (neither
\* F7 nor F8), and clears the latch.
C21_MenuRelease ==
  [][ ( /\ SampleStep
        /\ last'.kind = "release"
        /\ last'.key = 3
        /\ enterMenu
        /\ target \in {MISTER, ASCII} )
      => ( /\ ~enterMenu'
           /\ Released(last'.ops) =
                << IF target = MISTER THEN "KEY_F12" ELSE "KEY_LEFT_WINDOWS" >> ) ]_vars

\* The MISTER half of C21 alone.
C21_MenuReleaseMister ==
  [][ ( /\ SampleStep
        /\ last'.kind = "release"
        /\ last'.key = 3
        /\ enterMenu
        /\ target = MISTER )
      => ( /\ ~enterMenu'
           /\ Released(last'.ops) = << "KEY_F12" >> ) ]_vars

\* The same program with the cursor keys: cursor-right, cursor-down, both
\* Shifts and Ctrl on one target, and cursor-down with Shift and Ctrl across
\* target changes.
CursorGroups == { {2, 7, 17, 64, 72}, {4, 7, 17, 72, 75} }

InitCursor == InitFor(CursorGroups)

SpecCursor == InitCursor /\ [][Next]_vars

\* C22: on every target a press of cursor-right with Shift held puts down
\* Left-arrow and not Right-arrow, and a press of cursor-down with Shift held
\* (on ASCII: with Ctrl not held) puts down Up-arrow and not Down-arrow; the
\* release of a cursor key whose press had put down an arrow emits the
\* release of that same arrow, whatever Shift did in between.
C22_ShiftedCursor ==
  /\ (last.kind = "press" /\ last.key = 2) =>
       PutDown(last.ops) =
         << IF ShiftWasHeld THEN "KEY_LEFT_ARROW" ELSE "KEY_RIGHT_ARROW" >>
  /\ ( /\ last.kind = "press"
       /\ last.key = 7
       /\ ~(target = ASCII /\ last.pre.ctrlPressed) ) =>
       PutDown(last.ops) =
         << IF ShiftWasHeld THEN "KEY_UP_ARROW" ELSE "KEY_DOWN_ARROW" >>
  /\ ( /\ last.kind = "release"
       /\ last.key \in {2, 7}
       /\ Len(last.was) = 1
       /\ last.was[1] \in {"KEY_LEFT_ARROW", "KEY_UP_ARROW"} ) =>
       Released(last.ops) = last.was

\* The release half of C22 for an arrow that is still down on the host.
C22_ShiftedArrowStillDown ==
  ( /\ last.kind = "release"
    /\ last.key \in {2, 7}
    /\ last.was \in { << "KEY_LEFT_ARROW" >>, << "KEY_UP_ARROW" >> }
    /\ last.was[1] \in last.pre.sink ) =>
    Released(last.ops) = last.was

\* The press half of C22 alone.
C22_ShiftedCursorPress ==
  /\ (last.kind = "press" /\ last.key = 2) =>
       PutDown(last.ops) =
         << IF ShiftWasHeld THEN "KEY_LEFT_ARROW" ELSE "KEY_RIGHT_ARROW" >>
  /\ ( /\ last.kind = "press"
       /\ last.key = 7
       /\ ~(target = ASCII /\ last.pre.ctrlPressed) ) =>
       PutDown(last.ops) =
         << IF ShiftWasHeld THEN "KEY_UP_ARROW" ELSE "KEY_DOWN_ARROW" >>

\* The last step released cursor-down and its press had put down a Page key.
PageWasDown ==
  /\ last.kind = "release"
  /\ last.key = 7
  /\ last.was \in { << "KEY_PAGE_UP" >>, << "KEY_PAGE_DOWN" >> }

\* What C23 says of the release of a cursor-down that had put down a Page
\* key: that Page key is released, the latch is cleared, and Left Ctrl is
\* pressed again exactly when Ctrl is held.
PageReleased ==
  /\ Released(last.ops) = last.was
  /\ ~pageScr
  /\ (\E i \in DOMAIN last.ops : last.ops[i] = Op("press", "KEY_LEFT_CTRL", 0))
       <=> last.pre.ctrlPressed

\* C23: on ASCII with Ctrl held a press of cursor-down emits (after the
\* releases of unshift() when Shift is held too) release(Left Ctrl) and then
\* press(Page Down), or press(Page Up) with Shift, and sets the page-scroll
\* latch; the matching release releases that same Page key, clears the latch
\* and presses Left Ctrl again iff Ctrl is held then; on the other targets no
\* dispatch of cursor-down names Page Up or Page Down.
C23_PageScroll ==
  /\ ( /\ last.kind = "press"
       /\ last.key = 7
       /\ target = ASCII
       /\ last.pre.ctrlPressed ) =>
       /\ pageScr
       /\ last.ops =
            (IF ShiftWasHeld THEN UnshiftOps ELSE << >>)
            \o << Op("release", "KEY_LEFT_CTRL", 0),
                  Op("press", IF ShiftWasHeld THEN "KEY_PAGE_UP"
                                              ELSE "KEY_PAGE_DOWN", 0) >>
  /\ PageWasDown => PageReleased
  /\ (IsDispatch /\ last.key = 7 /\ target # ASCII) =>
       \A i \in DOMAIN last.ops :
         last.ops[i].key \notin {"KEY_PAGE_UP", "KEY_PAGE_DOWN"}

\* C23 with the release half kept to the runs where the target is still
\* ASCII at the release.
C23_PageScrollOnAscii ==
  /\ ( /\ last.kind = "press"
       /\ last.key = 7
       /\ target = ASCII
       /\ last.pre.ctrlPressed ) =>
       /\ pageScr
       /\ last.ops =
            (IF ShiftWasHeld THEN UnshiftOps ELSE << >>)
            \o << Op("release", "KEY_LEFT_CTRL", 0),
                  Op("press", IF ShiftWasHeld THEN "KEY_PAGE_UP"
                                              ELSE "KEY_PAGE_DOWN", 0) >>
  /\ (PageWasDown /\ target = ASCII /\ last.was[1] \in last.pre.sink)
       => PageReleased
  /\ (IsDispatch /\ last.key = 7 /\ target # ASCII) =>
       \A i \in DOMAIN last.ops :
         last.ops[i].key \notin {"KEY_PAGE_UP", "KEY_PAGE_DOWN"}

\* The host key of Ctrl and of Commodore on target t.
CtrlKeyOn(t) == IF t \in {VICE2_BMC64, VICE3} THEN "KEY_TAB" ELSE "KEY_LEFT_CTRL"

CmdrKeyOn(t) == IF t \in {ASCII, MISTER} THEN "KEY_LEFT_ALT" ELSE "KEY_LEFT_CTRL"

\* C24: a press of Ctrl (72) sets ctrlPressed and presses Tab on VICE2_BMC64
\* and VICE3 and Left Ctrl on ASCII and MISTER, and its release clears the
\* flag and releases that key; a press of Commodore (75) sets cmdrPressed and
\* presses Left Alt on ASCII and MISTER and Left Ctrl on VICE2_BMC64 and
\* VICE3, and its release clears the flag and releases that key.
C24_CtrlAndCommodore ==
  /\ (last.kind = "press" /\ last.key = 72) =>
       ctrlPressed /\ last.ops = << Op("press", CtrlKeyOn(target), 0) >>
  /\ (last.kind = "release" /\ last.key = 72) =>
       ~ctrlPressed /\ Released(last.ops) = << CtrlKeyOn(target) >>
  /\ (last.kind = "press" /\ last.key = 75) =>
       cmdrPressed /\ last.ops = << Op("press", CmdrKeyOn(target), 0) >>
  /\ (last.kind = "release" /\ last.key = 75) =>
       ~cmdrPressed /\ Released(last.ops) = << CmdrKeyOn(target) >>

\* Commodore released on MISTER: Left Alt was down and is up again.
C24_Witness ==
  /\ last.kind = "release"
  /\ last.key = 75
  /\ target = MISTER
  /\ ~cmdrPressed
  /\ "KEY_LEFT_ALT" \in last.pre.sink
  /\ "KEY_LEFT_ALT" \notin sink

ArrowKeys ==
  {"KEY_LEFT_ARROW", "KEY_RIGHT_ARROW", "KEY_UP_ARROW", "KEY_DOWN_ARROW"}

ShiftKeys == {"KEY_LEFT_SHIFT", "KEY_RIGHT_SHIFT"}

\* C25: on ASCII the sink never has an arrow key down together with a Left
\* or Right Shift key.
C25_NoShiftedArrow ==
  target = ASCII => (sink \cap ArrowKeys = {} \/ sink \cap ShiftKeys = {})

\* The same, for the states a release leaves: the Shift keys that the end of
\* release() presses again.
C25_NoShiftedArrowAfterRelease ==
  (target = ASCII /\ last.kind = "release" /\ last.pre.sink \cap ShiftKeys = {})
    => (sink \cap ArrowKeys = {} \/ sink \cap ShiftKeys = {})

\* The same program with the keys of the README's ASCII table: DEL, @, pound,
\* HOME and RESTORE with Shift and the target change, and *, up-arrow and
\* STOP with Shift.
AsciiGroups ==
  { {4, 17, 75, k} : k \in {0, 56, 60, 63, 68} } \cup { {17, 61, 66, 77} }

InitAscii == InitFor(AsciiGroups)

SpecAscii == InitAscii /\ [][Next]_vars

\* The host key that the README's ASCII table gives a position, with Shift
\* held or not ("" where the table says nothing).
AsciiTable(key, shift) ==
  CASE key = 63 /\ shift -> "KEY_END"
    [] key = 0 /\ shift -> "KEY_DELETE"
    [] key = 56 /\ shift -> "{"
    [] key = 61 /\ shift -> "}"
    [] key = 68 -> "KEY_TAB"
    [] key = 77 -> "KEY_ESC"
    [] key = 75 -> "KEY_LEFT_ALT"
    [] key = 60 /\ ~shift -> "\\"
    [] key = 66 -> "^"
    [] OTHER -> ""

\* C26: on ASCII a press of HOME or DEL with Shift held releases the held
\* host Shift keys and then presses End or Delete; a press of @ or * with
\* Shift held presses { or }; RESTORE presses Tab, STOP Esc, Commodore Left
\* Alt, pound without Shift the backslash and up-arrow ^; and the release of
\* such a key on ASCII releases the host key that its press had put down.
C26_AsciiTable ==
  /\ (last.kind = "press" /\ target = ASCII
        /\ AsciiTable(last.key, ShiftWasHeld) # "") =>
       last.ops =
         (IF last.key \in {0, 63} THEN UnshiftOps ELSE << >>)
         \o << Op("press", AsciiTable(last.key, ShiftWasHeld), 0) >>
  /\ (last.kind = "release" /\ target = ASCII
        /\ last.was \in { << AsciiTable(last.key, b) >> : b \in BOOLEAN }) =>
       Released(last.ops) = last.was

\* Shift+DEL on ASCII, Shift let go while DEL is held, DEL released: Delete
\* was down and is up again.
C26_Witness ==
  /\ last.kind = "release"
  /\ last.key = 0
  /\ target = ASCII
  /\ ~ShiftWasHeld
  /\ last.was = << "KEY_DELETE" >>
  /\ "KEY_DELETE" \in last.pre.sink
  /\ "KEY_DELETE" \notin sink

\* C27: every latch is true only while its key is down: shifted[p] is false
\* whenever the debounced state of position p is up, and the menu,
\* page-scroll and home-as-end latches are false whenever F7 (3), cursor-down
\* (7) and HOME (63) respectively are up.
C27_LatchesOnlyWhileHeld ==
  /\ \A p \in ValidPositions : shifted[p] => lastKeyState[p]
  /\ enterMenu => lastKeyState[3]
  /\ pageScr => lastKeyState[7]
  /\ clrPressed => lastKeyState[63]

\* C28: whenever the debounced state of every valid position is up, the sink
\* has no host key down.
C28_NoStuckKey ==
  (pc = "loop" /\ \A p \in ValidPositions : ~lastKeyState[p]) => sink = {}

\* C29: lShifted, rShifted, ctrlPressed and cmdrPressed are true exactly when
\* the debounced state of positions 17, 64, 72 and 75 respectively is down,
\* also after a target change, and the press or release of any other
\* position leaves the four flags as they were.
C29_FlagsFollowKeys ==
  /\ lShifted = lastKeyState[17]
  /\ rShifted = lastKeyState[64]
  /\ ctrlPressed = lastKeyState[72]
  /\ cmdrPressed = lastKeyState[75]
  /\ (IsDispatch /\ last.key \notin {17, 64, 72, 75}) =>
       /\ lShifted = last.pre.lShifted
       /\ rShifted = last.pre.rShifted
       /\ ctrlPressed = last.pre.ctrlPressed
       /\ cmdrPressed = last.pre.cmdrPressed

\* Shift+Commodore+F1 changed the target and released every host key: the
\* flags of the two held modifiers are still set.
C29_Witness ==
  /\ IsCycle
  /\ last.pre.lShifted
  /\ last.pre.target # target
  /\ sink = {}
  /\ lShifted /\ lastKeyState[17]
  /\ cmdrPressed /\ lastKeyState[75]

\* The operations ops are those of a plain key press of F1 or F2: releases
\* and presses of host keys only, leaving F1 or F2 down.
PlainF1(ops) ==
  /\ \A i \in DOMAIN ops : ops[i].op \in {"press", "release"}
  /\ PutDown(ops) \in { << "KEY_F1" >>, << "KEY_F2" >> }

\* C30: in loop() the target changes only in a press of F1 dispatched while
\* Commodore is already down, that is after the press of Commodore; a press
\* of Commodore never changes the target, also with F1 held; and when the
\* presses of F1 and of Commodore are dispatched in the same pass, F1 came
\* first as a plain F1 (or F2) key press and the target has not changed.
C30_CommodoreBeforeF1 ==
  /\ [][ (pc = "loop" /\ pc' = "loop" /\ target' # target) =>
           ( /\ last'.kind = "press"
             /\ last'.key = 4
             /\ cmdrPressed
             /\ lastKeyState[75] ) ]_vars
  /\ []( (last.kind = "press" /\ last.key = 75) =>
           /\ target = last.pre.target
           /\ 4 \in sweep.visited
           /\ sweep.f1Press # << >> =>
                (PlainF1(sweep.f1Press) /\ downSeq[4] = PutDown(sweep.f1Press)) )

\* F1 and Commodore went down in the same pass: F1 was pressed as F1 and is
\* down on the host next to Commodore's key, and the target is as it was.
C30_Witness ==
  /\ last.kind = "press"
  /\ last.key = 75
  /\ sweep.f1Press = << Op("press", "KEY_F1", 0) >>
  /\ lastKeyState[4]
  /\ target = last.pre.target
  /\ "KEY_F1" \in sink
  /\ CmdrKeyOn(target) \in sink

\* The operations of the Shift restore at the end of release() for the
\* handler of the last step.
RestoreOps ==
  (IF last.pre.lShifted THEN << Op("press", "KEY_LEFT_SHIFT", 0) >> ELSE << >>)
  \o (IF last.pre.rShifted THEN << Op("press", "KEY_RIGHT_SHIFT", 0) >> ELSE << >>)

\* C31: on every target a press of 0 (43) emits the release of each held
\* host Shift key and then press('0'), which is press('0') alone with no
\* Shift held, and leaves no Shift key down in the sink; its release emits
\* release('0') and then the press of each Shift that is held.
C31_ZeroUnshifted ==
  /\ (last.kind = "press" /\ last.key = 43) =>
       /\ last.ops = UnshiftOps \o << Op("press", "0", 0) >>
       /\ sink \cap ShiftKeys = {}
       /\ "0" \in sink
  /\ (last.kind = "release" /\ last.key = 43) =>
       /\ last.ops = << Op("release", "0", 0) >> \o RestoreOps
       /\ "0" \notin sink
       /\ ("KEY_LEFT_SHIFT" \in sink) = lShifted
       /\ ("KEY_RIGHT_SHIFT" \in sink) = rShifted

\* 0 pressed on a VICE target with both Shifts down on the host: both are
\* released and 0 is down.
C31_Witness ==
  /\ last.kind = "press"
  /\ last.key = 43
  /\ target = VICE3
  /\ ShiftKeys \subseteq last.pre.sink
  /\ sink \cap ShiftKeys = {}
  /\ "0" \in sink

\* The positions with a case of their own in press() and release() that
\* never passes the table entry to the sink.
ExplicitPositions == {0, 1, 2, 3, 4, 5, 6, 7, 17, 63, 64, 68, 72, 75, 77}

\* press(key) on target t with Shift held or not passes keymap[key] to the
\* sink: the default case, case 43, and the else and default branches of the
\* positions with an alternate or a per-target key.
PassesTable(key, t, shift) ==
  CASE key \in ExplicitPositions -> FALSE
    [] key \in {23, 30, 33, 40} -> ~(shift /\ t \in {MISTER, ASCII})
    [] key \in {55, 56, 61, 62, 73} -> ~(shift /\ t = ASCII)
    [] key = 60 -> t \in {ASCII, MISTER}
    [] key = 65 -> t \in {ASCII, VICE2_BMC64}
    [] key = 66 -> t \in {ASCII, VICE3}
    [] OTHER -> TRUE

\* A printable character: an entry that was assigned and is not an HID macro.
Printable(e) == e \notin NamedKeys /\ e # NUL

\* What reaches the sink when an entry that is not printable is passed.
NotCharacters == { AsData(e) : e \in NamedKeys } \cup {NUL}

\* Every entry that some handler passes to the sink is printable, in the
\* table of every target.
PassedEntriesPrintable ==
  \A t \in Targets : \A p \in ValidPositions :
    (\E b \in BOOLEAN : PassesTable(p, t, b)) => Printable(FreshKeymap(t)[p])

\* The symbols that the latched branch of a release names instead of the
\* table entry.
ShiftSymbols == {"&", "^", APOSTROPHE, "(", ")", "[", "{", "}", "]", DQUOTE}

\* C32: on every target every table entry that a handler passes to the sink
\* as data is a printable character; a press that passes the entry emits
\* press(keymap[position]) last, and a release emits release(keymap[position])
\* first unless it takes the latched branch of a position with a Shift
\* symbol, for the active target; so no named key reaches the sink through
\* the table.
C32_TableEntriesPrintable ==
  /\ PassedEntriesPrintable
  /\ (last.kind = "press" /\ PassesTable(last.key, target, ShiftWasHeld)) =>
       /\ Printable(keymap[last.key])
       /\ last.ops[Len(last.ops)] = Op("press", keymap[last.key], 0)
       /\ PutDown(last.ops) = << keymap[last.key] >>
  /\ ( /\ last.kind = "release"
       /\ \E b \in BOOLEAN : PassesTable(last.key, target, b) ) =>
       \/ last.ops[1] = Op("release", keymap[last.key], 0)
       \/ /\ last.key \in {23, 30, 33, 40, 55, 56, 61, 62, 73}
          /\ last.ops[1].op = "release"
          /\ last.ops[1].key \in ShiftSymbols
  /\ IsDispatch =>
       \A i \in DOMAIN last.ops :
         last.ops[i].op \in {"press", "release"} =>
           last.ops[i].key \notin NotCharacters

\* Pound pressed on ASCII: the base table has End at 60, the ASCII table the
\* backslash, and the backslash is down.
C32_Witness ==
  /\ last.kind = "press"
  /\ last.key = 60
  /\ target = ASCII
  /\ BaseKeymap[60] = "KEY_END"
  /\ keymap[60] = "\\"
  /\ sink = {"\\"}

\* The same program with the positions whose host key a per-target branch
\* chooses: pound, equals and up-arrow with Shift, and Restore, Ctrl and
\* Commodore with the F1 target change.
PerTargetGroups == { {17, 60, 65, 66}, {4, 68, 72, 75} }

InitPerTarget == InitFor(PerTargetGroups)

SpecPerTarget == InitPerTarget /\ [][Next]_vars

PerTargetPositions == {60, 65, 66, 68, 72, 75}

\* C33: for pound (60), equals (65), up-arrow (66), Restore (68), Ctrl (72)
\* and Commodore (75), on each target the host key that press() presses and
\* the host key that release() releases are both the entry of the active
\* target's translation table for the position.
C33_BranchEqualsTable ==
  /\ (IsDispatch /\ last.key \in PerTargetPositions) =>
       keymap[last.key] = FreshKeymap(target)[last.key]
  /\ (last.kind = "press" /\ last.key \in PerTargetPositions) =>
       /\ last.ops[Len(last.ops)] = Op("press", keymap[last.key], 0)
       /\ PutDown(last.ops) = << keymap[last.key] >>
  /\ (last.kind = "release" /\ last.key \in PerTargetPositions) =>
       /\ last.ops[1] = Op("release", keymap[last.key], 0)
       /\ Released(last.ops) = << keymap[last.key] >>

\* Restore released on MISTER: F11, the MISTER table's entry for 68, was down
\* and is released.
C33_Witness ==
  /\ last.kind = "release"
  /\ last.key = 68
  /\ target = MISTER
  /\ keymap[68] = "KEY_F11"
  /\ last.was = << "KEY_F11" >>
  /\ "KEY_F11" \in last.pre.sink
  /\ "KEY_F11" \notin sink

\* The last step was the press of a key other than a Shift key whose handler
\* did not suppress Shift: it released no host Shift key and was not a
\* target change.
PlainPress ==
  /\ last.kind = "press"
  /\ last.key \notin {17, 64}
  /\ ~IsCycle
  /\ \A i \in DOMAIN last.ops :
       ~(last.ops[i].op = "release" /\ last.ops[i].key \in ShiftKeys)

\* C34: whenever the press of a key whose handler does not suppress Shift is
\* emitted while a Shift key is held, that host Shift key is down in the
\* sink.
C34_ShiftDownAtPress ==
  PlainPress =>
    /\ lastKeyState[17] => "KEY_LEFT_SHIFT" \in sink
    /\ lastKeyState[64] => "KEY_RIGHT_SHIFT" \in sink

\* The same where no handler suppresses Shift at all: F1, Shift, Ctrl and
\* Commodore on a target other than ASCII.  Only the releaseAll() of a target
\* change can have taken the host Shift away.
C34_ShiftDownAfterTargetChange ==
  (PlainPress /\ keys = {4, 17, 72, 75} /\ target # ASCII) =>
    /\ lastKeyState[17] => "KEY_LEFT_SHIFT" \in sink
    /\ lastKeyState[64] => "KEY_RIGHT_SHIFT" \in sink

\* The last step released F7 after a menu press on target t whose host key
\* is still down, with Commodore down.
MenuReleasedOn(t, menuKey) ==
  /\ last.kind = "release"
  /\ last.key = 3
  /\ target = t
  /\ \E i \in DOMAIN last.was : last.was[i] = menuKey
  /\ menuKey \in last.pre.sink
  /\ lastKeyState[75]

\* C35: after Commodore+F7 and the release of F7 with Commodore still held,
\* Left Alt is down in the sink, on MISTER and on ASCII.
C35_AltHeldAfterMenu ==
  (MenuReleasedOn(MISTER, "KEY_F12") \/ MenuReleasedOn(ASCII, "KEY_LEFT_WINDOWS"))
    => "KEY_LEFT_ALT" \in sink

\* The MISTER half of C35 alone.
C35_AltHeldAfterMenuMister ==
  MenuReleasedOn(MISTER, "KEY_F12") => "KEY_LEFT_ALT" \in sink

\* The line of position p is traced and is at a level other than the
\* position's debounced state.
Differs(p) == p \in DOMAIN raw /\ raw[p].level # lastKeyState[p]

\* C36: while loop() keeps scanning and every row takes at least 1 ms, a
\* position whose line stays at a level other than its debounced state is
\* dispatched: the debounce test never skips a read, so the first read of
\* the position dispatches it, for an ordinary key (17) and for RESTORE (68),
\* whose timestamp is written at the end of row 6 of every pass.
C36_NoStarvation ==
  /\ \A p \in {17, 68} : Differs(p) ~> ~Differs(p)
  /\ [](last.kind # "bounce")
  /\ [][ \A p \in {17, 68} :
           (SampleStep /\ thisKey' = p /\ Differs(p)) =>
             (lastKeyState'[p] = raw[p].level /\ IsDispatch' /\ last'.key = p) ]_vars
  /\ [][ (pc = "loop" /\ pc' = "loop" /\ row = 6 /\ row' # row) =>
           (thisKey = 68 /\ debounceAge'[68] = RowDelay) ]_vars

\* RESTORE was read down in a pass that began with it up, and its press was
\* dispatched at that read.
C36_Witness ==
  /\ last.kind = "press"
  /\ last.key = 68
  /\ raw[68].level
  /\ lastKeyState[68]
  /\ ~sweep.restoreWas
  /\ debounceAge[68] = debounceDelay

\* The target after Commodore+F1, after Commodore+Shift+F1 and after
\* Commodore+Ctrl+F1 on target t.
Forward(t) == NextTarget(t, FALSE, FALSE)

Backward(t) == NextTarget(t, FALSE, TRUE)

Reset(t, shift) == NextTarget(t, TRUE, shift)

\* C37: target cycling is a rotation of the four targets: forward and
\* backward are bijections and undo each other, four forward presses return
\* to the starting target, and Commodore+Ctrl+F1 gives target 1 once and
\* twice; and every target change of a run is the step of this rotation
\* from the target it found, so the opposite press next returns to it.
C37_BijectiveRotation ==
  /\ \A t \in Targets :
       /\ Forward(Forward(Forward(Forward(t)))) = t
       /\ Backward(Forward(t)) = t
       /\ Forward(Backward(t)) = t
       /\ \A a, b \in BOOLEAN : Reset(t, a) = 1 /\ Reset(Reset(t, a), b) = 1
  /\ { Forward(t) : t \in Targets } = Targets
  /\ { Backward(t) : t \in Targets } = Targets
  /\ IsCycle =>
       /\ last.pre.target \in Targets
       /\ target \in Targets
       /\ target = NextTarget(last.pre.target, last.pre.ctrlPressed, ShiftWasHeld)
       /\ ~last.pre.ctrlPressed =>
            last.pre.target = IF ShiftWasHeld THEN Forward(target)
                                              ELSE Backward(target)
       /\ (~last.pre.ctrlPressed /\ ~ShiftWasHeld) =>
            Forward(Forward(Forward(target))) = last.pre.target

\* The forward press that closes the cycle: Commodore+F1 on MISTER, no Shift,
\* no Ctrl, gives ASCII, which is stored.
C37_Witness ==
  /\ IsCycle
  /\ ~ShiftWasHeld
  /\ ~last.pre.ctrlPressed
  /\ last.pre.target = MISTER
  /\ target = ASCII
  /\ eeprom = ASCII

=============================================================================
